---- MODULE Spec2Model ----
(***************************************************************************)
(* Table-reference rendering of node-sql-parser (src/src/tables.js).       *)
(*                                                                         *)
(* Representation.                                                         *)
(*  - A JS object is a record holding exactly its present fields; reading  *)
(*    a field gives a "maybe": <<>> for undefined, <<v>> for the value v.  *)
(*  - A JS array is a sequence; a table chain given as an array is the     *)
(*    record [items |-> <<...>>] so that Array.isArray can be told apart   *)
(*    from the wrapper object {expr, parentheses}.                         *)
(*  - The alias field `as` is the one field that holds either a string or  *)
(*    an expression node: a string alias s is the record [str |-> s].      *)
(*  - Rendered text is a sequence of tokens.  Punctuation and the single   *)
(*    space are tokens of their own, so separators can be counted.  The    *)
(*    JS value undefined, where a renderer returns it instead of text, is  *)
(*    the one-token sequence `undefined` below; '' is <<>>.                *)
(*  - A TypeError raised by a renderer is the flag `threw` of the call.    *)
(***************************************************************************)
EXTENDS Integers, Sequences, FiniteSets, TLC

VARIABLES fn, arg, ret, threw, pc

vars == <<fn, arg, ret, threw, pc>>

-----------------------------------------------------------------------------
(* JavaScript values and built-ins used by tables.js                        *)

\* The JS value undefined as a renderer's result (never a piece of text).
undefined == <<"<undefined>">>

\* An object with no field.
EmptyObj == [f \in {} |-> 0]

\* obj.f : <<>> when the field is absent.
F(obj, f) == IF f \in DOMAIN obj THEN <<obj[f]>> ELSE <<>>

\* m && m.f
FF(m, f) == IF m = <<>> THEN <<>> ELSE F(m[1], f)

\* !s for a maybe-string: undefined and '' are falsy.
FalsyStr(m) == m = <<>> \/ m = <<"">>

\* `${val}` : undefined is spelled out, text is kept.
Str(val) == IF val = undefined THEN <<"undefined">> ELSE val

\* Array.prototype.join: undefined elements count as ''.
RECURSIVE join(_, _)
join(arr, sep) ==
  IF arr = <<>> THEN <<>>
  ELSE LET head == IF arr[1] = undefined THEN <<>> ELSE arr[1]
       IN  IF Len(arr) = 1 THEN head ELSE head \o sep \o join(Tail(arr), sep)

\* String.prototype.toUpperCase on the strings of the model's vocabulary.
UpperTable ==
  ("unnest" :> "UNNEST") @@ ("UNNEST" :> "UNNEST") @@ ("Unnest" :> "UNNEST") @@
  ("dual" :> "DUAL") @@ ("table" :> "TABLE") @@
  ("pivot" :> "PIVOT") @@ ("unpivot" :> "UNPIVOT") @@ ("PIVOT" :> "PIVOT") @@
  ("rollup" :> "ROLLUP") @@
  ("inner join" :> "INNER JOIN") @@ ("LEFT JOIN" :> "LEFT JOIN") @@
  ("offset" :> "OFFSET") @@ ("with offset as" :> "WITH OFFSET AS") @@
  ("for system_time" :> "FOR SYSTEM_TIME") @@
  ("only" :> "ONLY") @@ ("final" :> "FINAL") @@
  ("with" :> "WITH") @@ ("forceseek" :> "FORCESEEK") @@
  ("ForceSeek" :> "FORCESEEK") @@ ("index" :> "INDEX") @@
  ("spatial_window_max_cells" :> "SPATIAL_WINDOW_MAX_CELLS") @@
  ("nolock" :> "NOLOCK") @@ ("force" :> "FORCE") @@
  ("row" :> "ROW") @@ ("generator" :> "GENERATOR") @@
  ("engine" :> "ENGINE") @@ ("partition by" :> "PARTITION BY") @@
  ("default collate" :> "DEFAULT COLLATE") @@ ("options" :> "OPTIONS") @@
  ("cluster by" :> "CLUSTER BY") @@
  ("AS" :> "AS") @@ ("ON" :> "ON") @@ ("OFFSET" :> "OFFSET") @@
  ("WITH OFFSET AS" :> "WITH OFFSET AS") @@ ("" :> "")

toUpperCase(s) == UpperTable[s]

\* String.prototype.toLowerCase on the table-hint keywords.
LowerTable ==
  ("forceseek" :> "forceseek") @@ ("ForceSeek" :> "forceseek") @@
  ("index" :> "index") @@
  ("spatial_window_max_cells" :> "spatial_window_max_cells") @@
  ("nolock" :> "nolock") @@ ("" :> "")

toLowerCase(s) == LowerTable[s]

-----------------------------------------------------------------------------
(* External collaborators (./util, ./expr, ./column, ./binary, ./insert,    *)
(* ./interval): modelled from their contracts.                              *)

\* upper(keyword): nothing for an absent keyword, else the keyword uppercased.
toUpper(val) == IF FalsyStr(val) THEN undefined ELSE <<toUpperCase(val[1])>>

\* present(text): a rendered segment is kept iff it is neither undefined nor ''.
hasVal(val) == val # undefined /\ val # <<>>

\* The identifier quote character.
QUOTE == "'"

\* renderIdentifier(name): quotes a bare identifier; nothing for an absent one.
identifierToSql(ident) ==
  IF FalsyStr(ident) THEN undefined ELSE <<QUOTE, ident[1], QUOTE>>

\* renderExpression(expr): an expression node renders to its own text.
exprToSQL(expr) == IF expr = <<>> THEN undefined ELSE <<expr[1].sql>>

\* renderColumnRef(col)
columnRefToSQL(col) == IF col = <<>> THEN undefined ELSE <<col[1].column>>

\* renderBinary(expr)
binaryToSQL(expr) ==
  IF expr = <<>> THEN undefined
  ELSE <<expr[1].operator, " ">> \o <<expr[1].right>>

\* renderLiteral(value)
literalToSQL(value) == IF value = <<>> THEN undefined ELSE <<value[1].value>>

\* renderInterval(spec)
intervalToSQL(size) ==
  IF size = <<>> THEN undefined ELSE <<"INTERVAL", " ", size[1].value>>

\* renderValuesList(rows): `(r1),(r2)`, each row one expression list.
RECURSIVE valuesRows(_)
valuesRows(rows) ==
  IF rows = <<>> THEN <<>>
  ELSE <<"(", rows[1], ")">>
       \o (IF Len(rows) = 1 THEN <<>> ELSE <<",">> \o valuesRows(Tail(rows)))

valuesToSQL(values) == IF values = <<>> THEN undefined ELSE valuesRows(values[1])

\* renderTriple(node): the ordered texts of a generator triple.
commonTypeValue(generator) == << <<generator.type>>, <<generator.value>> >>

\* connect(keyword, renderFn, value): nothing for an absent value, else
\* "<KEYWORD> <renderFn(value)>" (the bare rendering when there is no keyword).
\* The caller passes rendered = renderFn(value) and notOpt = !value, which it
\* states for the type the value has.
commonOptionConnector(keyword, rendered, notOpt) ==
  IF notOpt THEN undefined
  ELSE IF ~hasVal(keyword) THEN rendered
  ELSE <<toUpperCase(keyword[1])>> \o <<" ">> \o Str(rendered)

\* arr.filter(hasVal)
filterHasVal(arr) == SelectSeq(arr, hasVal)

\* The separator ', '.
CommaSpace == <<",", " ">>

\* The separator ' '.
Space == <<" ">>

-----------------------------------------------------------------------------
(* Leaf renderers                                                           *)

\* typeof as === 'string' : a string alias is boxed as [str |-> s].
IsStringAlias(as) == as # <<>> /\ "str" \in DOMAIN as[1]

\* Mutant of unnestToSQL: the segments are joined without filter(hasVal).
unnestToSQL_noFilter(unnestExpr) ==
  LET type == F(unnestExpr, "type")
      as == F(unnestExpr, "as")
      expr == F(unnestExpr, "expr")
      withOffset == F(unnestExpr, "with_offset")
      exprSQL == IF expr # <<>> /\ hasVal(exprToSQL(expr))
                 THEN exprToSQL(expr) ELSE <<>>
      result == <<
        Str(toUpper(type)) \o <<"(">> \o exprSQL \o <<")">>,
        IF IsStringAlias(as)
        THEN commonOptionConnector(<<"AS">>, identifierToSql(<<as[1].str>>),
                                   FalsyStr(<<as[1].str>>))
        ELSE commonOptionConnector(<<"AS">>, exprToSQL(as), as = <<>>),
        commonOptionConnector(toUpper(FF(withOffset, "keyword")),
                              identifierToSql(FF(withOffset, "as")),
                              FalsyStr(FF(withOffset, "as"))) >>
  IN  join(result, Space)

unnestToSQL(unnestExpr) ==
  LET type == F(unnestExpr, "type")
      as == F(unnestExpr, "as")
      expr == F(unnestExpr, "expr")
      withOffset == F(unnestExpr, "with_offset")
      exprSQL == IF expr # <<>> /\ hasVal(exprToSQL(expr))
                 THEN exprToSQL(expr) ELSE <<>>
      result == <<
        Str(toUpper(type)) \o <<"(">> \o exprSQL \o <<")">>,
        IF IsStringAlias(as)
        THEN commonOptionConnector(<<"AS">>, identifierToSql(<<as[1].str>>),
                                   FalsyStr(<<as[1].str>>))
        ELSE commonOptionConnector(<<"AS">>, exprToSQL(as), as = <<>>),
        commonOptionConnector(toUpper(FF(withOffset, "keyword")),
                              identifierToSql(FF(withOffset, "as")),
                              FalsyStr(FF(withOffset, "as"))) >>
  IN  join(filterHasVal(result), Space)

pivotOperatorToSQL(operator) ==
  LET as == F(operator, "as")
      result == << exprToSQL(F(operator, "expr")),
                   <<"FOR">>,
                   columnRefToSQL(F(operator, "column")),
                   binaryToSQL(F(operator, "in_expr")) >>
      sql == << Str(toUpper(F(operator, "type"))) \o <<"(">>
                \o join(result, Space) \o <<")">> >>
  IN  join(IF ~FalsyStr(as)
           THEN sql \o << <<"AS">>, identifierToSql(as) >>
           ELSE sql, Space)

\* Mutant of operatorToSQL: the type is matched whatever its case.
operatorToSQL_anyCase(operator) ==
  IF operator = <<>> THEN undefined
  ELSE LET type == toUpper(F(operator[1], "type"))
       IN  IF type = <<"PIVOT">> \/ type = <<"UNPIVOT">>
           THEN pivotOperatorToSQL(operator[1])
           ELSE <<>>

operatorToSQL(operator) ==
  IF operator = <<>> THEN undefined
  ELSE LET type == F(operator[1], "type")
       IN  IF type = <<"pivot">> \/ type = <<"unpivot">>
           THEN pivotOperatorToSQL(operator[1])
           ELSE <<>>

\* tableHintToSQL raises a TypeError: keyword.toLowerCase(), index_columns.map
\* or expr.map on undefined.
tableHintThrows(tableHintExpr) ==
  /\ tableHintExpr # <<>>
  /\ LET h == tableHintExpr[1]
         keyword == F(h, "keyword")
     IN  \/ keyword = <<>>
         \/ /\ toLowerCase(keyword[1]) = "forceseek"
            /\ F(h, "index_columns") = <<>>
         \/ /\ toLowerCase(keyword[1]) = "index"
            /\ F(h, "parentheses") = <<TRUE>>
            /\ FF(F(h, "expr"), "items") = <<>>

tableHintToSQL(tableHintExpr) ==
  IF tableHintExpr = <<>> THEN undefined
  ELSE
  LET h == tableHintExpr[1]
      keyword == F(h, "keyword")
      expr == F(h, "expr")
      index == F(h, "index")
      index_columns == F(h, "index_columns")
      parentheses == F(h, "parentheses")
      prefix == F(h, "prefix")
      kw == toLowerCase(keyword[1])
      result ==
        CASE kw = "forceseek" ->
               << toUpper(keyword),
                  <<"(">> \o Str(identifierToSql(index)),
                  <<"(">>
                  \o join(filterHasVal([i \in DOMAIN index_columns[1] |->
                                          exprToSQL(<<index_columns[1][i]>>)]),
                          CommaSpace)
                  \o <<")", ")">> >>
          [] kw = "spatial_window_max_cells" ->
               << toUpper(keyword), <<"=">>, exprToSQL(expr) >>
          [] kw = "index" ->
               << toUpper(prefix), toUpper(keyword),
                  IF parentheses = <<TRUE>>
                  THEN <<"(">>
                       \o join([i \in DOMAIN expr[1].items |->
                                 identifierToSql(<<expr[1].items[i]>>)], CommaSpace)
                       \o <<")">>
                  ELSE <<"=", " ">> \o Str(identifierToSql(FF(expr, "str"))) >>
          [] OTHER -> << exprToSQL(expr) >>
  IN  join(filterHasVal(result), Space)

tableTumbleThrows(tumble) == tumble # <<>> /\ F(tumble[1], "data") = <<>>

tableTumbleToSQL(tumble) ==
  IF tumble = <<>> THEN <<>>
  ELSE
  LET tableInfo == F(tumble[1], "data")[1]
      timecol == F(tumble[1], "timecol")
      size == F(tumble[1], "size")
      fullTableName == join(filterHasVal(<< identifierToSql(F(tableInfo, "db")),
                                            identifierToSql(F(tableInfo, "table")) >>),
                            <<".">>)
      result == << <<"TABLE", "(", "TUMBLE", "(", "TABLE">>,
                   fullTableName,
                   <<"DESCRIPTOR", "(">> \o Str(columnRefToSQL(timecol)) \o <<")">>,
                   Str(intervalToSQL(size)) \o <<")", ")">> >>
  IN  join(filterHasVal(result), Space)

\* const { keyword } = stmt on undefined.
temporalTableOptionThrows(stmt) == stmt = <<>>

temporalTableOptionToSQL(stmt) ==
  LET s == stmt[1]
      keyword == F(s, "keyword")
      result ==
        CASE keyword = <<"as">> ->
               << <<"AS">>, <<"OF">>, exprToSQL(F(s, "of")) >>
          [] keyword = <<"from_to">> ->
               << <<"FROM">>, exprToSQL(F(s, "from")),
                  <<"TO">>, exprToSQL(F(s, "to")) >>
          [] keyword = <<"between_and">> ->
               << <<"BETWEEN">>, exprToSQL(F(s, "between")),
                  <<"AND">>, exprToSQL(F(s, "and")) >>
          [] keyword = <<"contained">> ->
               << <<"CONTAINED">>, <<"IN">>, exprToSQL(F(s, "in")) >>
          [] OTHER -> <<>>
  IN  join(filterHasVal(result), Space)

temporalTableThrows(stmt) ==
  stmt # <<>> /\ temporalTableOptionThrows(F(stmt[1], "expr"))

\* Mutant of temporalTableToSQL: an empty inner clause drops the keyword too.
temporalTableToSQL_dropEmpty(stmt) ==
  IF stmt = <<>> THEN undefined
  ELSE LET keyword == F(stmt[1], "keyword")
           expr == F(stmt[1], "expr")
       IN  IF temporalTableOptionToSQL(expr) = <<>> THEN <<>>
           ELSE join(filterHasVal(<< toUpper(keyword),
                                     temporalTableOptionToSQL(expr) >>), Space)

temporalTableToSQL(stmt) ==
  IF stmt = <<>> THEN undefined
  ELSE LET keyword == F(stmt[1], "keyword")
           expr == F(stmt[1], "expr")
       IN  join(filterHasVal(<< toUpper(keyword),
                                temporalTableOptionToSQL(expr) >>), Space)

\* generators.map on undefined.
generateVirtualTableThrows(stmt) == F(stmt, "generators") = <<>>

generateVirtualTable(stmt) ==
  LET generators == F(stmt, "generators")[1]
      generatorSQL == join([i \in DOMAIN generators |->
                              join(commonTypeValue(generators[i]), Space)],
                           CommaSpace)
  IN  Str(toUpper(F(stmt, "keyword"))) \o <<"(">>
      \o Str(toUpper(F(stmt, "type"))) \o <<"(">> \o generatorSQL \o <<")", ")">>

-----------------------------------------------------------------------------
(* Table reference renderer                                                 *)

\* text.split(sep) for a one-token separator.
RECURSIVE split(_, _, _)
split(text, sep, cur) ==
  IF text = <<>> THEN <<cur>>
  ELSE IF text[1] = sep THEN <<cur>> \o split(Tail(text), sep, <<>>)
  ELSE split(Tail(text), sep, Append(cur, text[1]))

\* The `values` case of tableToSQL's switch.
valuesTableName(expr) ==
  LET parentheses == F(expr, "parentheses")
      values == F(expr, "values")
      prefix == F(expr, "prefix")
      valuesExpr0 == valuesToSQL(values)
      pieces == Tail(split(valuesExpr0, "(", <<>>))
      valuesExpr ==
        IF ~FalsyStr(prefix)
        THEN join([i \in DOMAIN pieces |->
                     Str(toUpper(prefix)) \o <<"(">> \o pieces[i]], <<>>)
        ELSE valuesExpr0
      valueSQL == << IF parentheses = <<TRUE>> THEN <<"(">> ELSE undefined,
                     <<"VALUES", " ">> \o Str(valuesExpr),
                     IF parentheses = <<TRUE>> THEN <<")">> ELSE undefined >>
  IN  join(filterHasVal(valueSQL), <<>>)

\* toUpper(tableInfo.type) === 'UNNEST'
IsUnnest(tableInfo) == toUpper(F(tableInfo, "type")) = <<"UNNEST">>

tableToSQLThrows(tableInfo) ==
  /\ ~IsUnnest(tableInfo)
  /\ LET expr == F(tableInfo, "expr")
         table_hint == F(tableInfo, "table_hint")
     IN  \/ /\ expr # <<>>
            /\ \/ F(expr[1], "type") = <<"tumble">> /\ tableTumbleThrows(expr)
               \/ /\ F(expr[1], "type") = <<"generator">>
                  /\ generateVirtualTableThrows(expr[1])
         \/ temporalTableThrows(F(tableInfo, "temporal_table"))
         \/ /\ table_hint # <<>>
            /\ \/ F(table_hint[1], "expr") = <<>>
               \/ \E i \in DOMAIN table_hint[1].expr :
                     tableHintThrows(<<table_hint[1].expr[i]>>)

\* tableName before the prefix/suffix decoration: the table identifier, or
\* the rendering of expr by its type.
tableNameToSQL(tableInfo) ==
  LET table == F(tableInfo, "table")
      expr == F(tableInfo, "expr")
  IN  IF expr # <<>>
      THEN CASE F(expr[1], "type") = <<"values">> -> valuesTableName(expr[1])
             [] F(expr[1], "type") = <<"tumble">> -> tableTumbleToSQL(expr)
             [] F(expr[1], "type") = <<"generator">> -> generateVirtualTable(expr[1])
             [] OTHER -> exprToSQL(expr)
      ELSE IF FalsyStr(table) THEN undefined ELSE identifierToSql(table)

\* Mutant of qualifiedName: the components are joined without filter(hasVal).
qualifiedName_noFilter(tableInfo) ==
  LET serverName == identifierToSql(F(tableInfo, "server"))
      database == identifierToSql(F(tableInfo, "db"))
      schemaStr == identifierToSql(F(tableInfo, "schema"))
      tableName == join(filterHasVal(<< toUpper(F(tableInfo, "prefix")),
                                        tableNameToSQL(tableInfo),
                                        toUpper(F(tableInfo, "suffix")) >>), Space)
  IN  join(<<serverName, database, schemaStr, tableName>>, <<".">>)

\* str: the decorated name qualified by server, db and schema.
qualifiedName(tableInfo) ==
  LET serverName == identifierToSql(F(tableInfo, "server"))
      database == identifierToSql(F(tableInfo, "db"))
      schemaStr == identifierToSql(F(tableInfo, "schema"))
      tableName == join(filterHasVal(<< toUpper(F(tableInfo, "prefix")),
                                        tableNameToSQL(tableInfo),
                                        toUpper(F(tableInfo, "suffix")) >>), Space)
  IN  join(filterHasVal(<<serverName, database, schemaStr, tableName>>), <<".">>)

\* tableSampleSQL
tableSampleToSQL(tablesample) ==
  join(filterHasVal(<< <<"TABLESAMPLE">>,
                       exprToSQL(FF(tablesample, "expr")),
                       literalToSQL(FF(tablesample, "repeatable")) >>), Space)

\* The two elements pushed for table_hint.
tableHintSegments(table_hint) ==
  IF table_hint # <<>>
  THEN << toUpper(F(table_hint[1], "keyword")),
          <<"(">>
          \o join(filterHasVal([i \in DOMAIN table_hint[1].expr |->
                                  tableHintToSQL(<<table_hint[1].expr[i]>>)]),
                  CommaSpace)
          \o <<")">> >>
  ELSE <<>>

\* Mutant of tableSegments: the alias is pushed before the temporal clause.
tableSegments_aliasFirst(tableInfo) ==
  LET as == F(tableInfo, "as")
      tablesample == F(tableInfo, "tablesample")
  IN  << qualifiedName(tableInfo) >>
      \o (IF tablesample # <<>> THEN << tableSampleToSQL(tablesample) >> ELSE <<>>)
      \o << commonOptionConnector(<<"AS">>, identifierToSql(FF(as, "str")),
                                  FalsyStr(FF(as, "str"))),
            temporalTableToSQL(F(tableInfo, "temporal_table")),
            operatorToSQL(F(tableInfo, "operator")) >>
      \o tableHintSegments(F(tableInfo, "table_hint"))

\* result: the segments of a table reference, in the order they are pushed.
tableSegments(tableInfo) ==
  LET as == F(tableInfo, "as")
      tablesample == F(tableInfo, "tablesample")
  IN  << qualifiedName(tableInfo) >>
      \o (IF tablesample # <<>> THEN << tableSampleToSQL(tablesample) >> ELSE <<>>)
      \o << temporalTableToSQL(F(tableInfo, "temporal_table")),
            commonOptionConnector(<<"AS">>, identifierToSql(FF(as, "str")),
                                  FalsyStr(FF(as, "str"))),
            operatorToSQL(F(tableInfo, "operator")) >>
      \o tableHintSegments(F(tableInfo, "table_hint"))

\* Mutant of tableToSQL: an UNNEST node is wrapped in parentheses too.
tableToSQL_wrapUnnest(tableInfo) ==
  LET tableSQL == IF IsUnnest(tableInfo) THEN unnestToSQL(tableInfo)
                  ELSE join(filterHasVal(tableSegments(tableInfo)), Space)
  IN  IF F(tableInfo, "parentheses") = <<TRUE>>
      THEN <<"(">> \o tableSQL \o <<")">>
      ELSE tableSQL

tableToSQL(tableInfo) ==
  IF IsUnnest(tableInfo) THEN unnestToSQL(tableInfo)
  ELSE LET tableSQL == join(filterHasVal(tableSegments(tableInfo)), Space)
       IN  IF F(tableInfo, "parentheses") = <<TRUE>>
           THEN <<"(">> \o tableSQL \o <<")">>
           ELSE tableSQL

-----------------------------------------------------------------------------
(* Table chain renderer                                                     *)

\* Array.isArray(tables): an array is the record [items |-> <<...>>].
IsArray(tables) == "items" \in DOMAIN tables

\* Mutant of joinClause: USING is pushed before ON.
joinClause_usingFirst(joinExpr) ==
  LET on == F(joinExpr, "on")
      using == F(joinExpr, "using")
      joinKw == F(joinExpr, "join")
      str == << IF ~FalsyStr(joinKw) THEN <<" ">> \o Str(toUpper(joinKw))
                ELSE <<",">>,
                tableToSQL(joinExpr) >>
             \o (IF using # <<>>
                 THEN << <<"USING", " ", "(">>
                         \o join([i \in DOMAIN using[1] |->
                                   identifierToSql(<<using[1][i]>>)], CommaSpace)
                         \o <<")">> >>
                 ELSE <<>>)
             \o << commonOptionConnector(<<"ON">>, exprToSQL(on), on = <<>>) >>
  IN  join(filterHasVal(str), Space)

\* The body of tablesToSQL's loop: the clause of one join entry.
joinClause(joinExpr) ==
  LET on == F(joinExpr, "on")
      using == F(joinExpr, "using")
      joinKw == F(joinExpr, "join")
      str == << IF ~FalsyStr(joinKw) THEN <<" ">> \o Str(toUpper(joinKw))
                ELSE <<",">>,
                tableToSQL(joinExpr),
                commonOptionConnector(<<"ON">>, exprToSQL(on), on = <<>>) >>
             \o (IF using # <<>>
                 THEN << <<"USING", " ", "(">>
                         \o join([i \in DOMAIN using[1] |->
                                   identifierToSql(<<using[1][i]>>)], CommaSpace)
                         \o <<")">> >>
                 ELSE <<>>)
  IN  join(filterHasVal(str), Space)

RECURSIVE tablesToSQLThrows(_)
tablesToSQLThrows(tables) ==
  /\ tables # <<>>
  /\ IF ~IsArray(tables[1])
     THEN tablesToSQLThrows(F(tables[1], "expr"))
     ELSE LET items == tables[1].items
          IN  \/ items = <<>>
              \/ /\ F(items[1], "type") # <<"dual">>
                 /\ \E i \in DOMAIN items : tableToSQLThrows(items[i])

\* Mutant of tablesArrayToSQL: dual replaces the base table only, the join
\* entries are still rendered.
tablesArrayToSQL_dualPrefix(items) ==
  LET baseTable == items[1]
      clauses == [i \in DOMAIN items |->
                    IF i = 1
                    THEN IF F(baseTable, "type") = <<"dual">> THEN <<"DUAL">>
                         ELSE tableToSQL(baseTable)
                    ELSE joinClause(items[i])]
  IN  join(filterHasVal(clauses), <<>>)

\* tablesToSQL on an array: the dual short-circuit, else the base table
\* followed by the clauses of the join entries.
tablesArrayToSQL(items) ==
  LET baseTable == items[1]
      clauses == [i \in DOMAIN items |->
                    IF i = 1 THEN tableToSQL(baseTable)
                    ELSE joinClause(items[i])]
  IN  IF F(baseTable, "type") = <<"dual">> THEN <<"DUAL">>
      ELSE join(filterHasVal(clauses), <<>>)

RECURSIVE tablesToSQL(_)

\* Mutant of tablesToSQL: a wrapper's parentheses are not rendered.
tablesToSQL_noParens(tables) ==
  IF tables = <<>> THEN <<>>
  ELSE IF ~IsArray(tables[1])
  THEN tablesToSQL(F(tables[1], "expr"))
  ELSE tablesArrayToSQL(tables[1].items)

tablesToSQL(tables) ==
  IF tables = <<>> THEN <<>>
  ELSE IF ~IsArray(tables[1])
  THEN LET sql == tablesToSQL(F(tables[1], "expr"))
       IN  IF F(tables[1], "parentheses") = <<TRUE>>
           THEN <<"(">> \o sql \o <<")">>
           ELSE sql
  ELSE tablesArrayToSQL(tables[1].items)

-----------------------------------------------------------------------------
(* Table option renderer                                                    *)

\* keyword.toUpperCase() or value.map on undefined.
tableOptionThrows(tableOption) ==
  LET keyword == F(tableOption, "keyword")
  IN  \/ keyword = <<>>
      \/ /\ keyword \in {<<"options">>, <<"cluster by">>}
         /\ FF(F(tableOption, "value"), "items") = <<>>

\* tableOptionItem => [keyword, symbol, exprToSQL(value)].join(' ')
optionItemText(item) ==
      join(<< IF F(item, "keyword") = <<>> THEN undefined ELSE <<item.keyword>>,
              IF F(item, "symbol") = <<>> THEN undefined ELSE <<item.symbol>>,
              exprToSQL(F(item, "value")) >>, Space)

tableOptionToSQL(tableOption) ==
  LET keyword == F(tableOption, "keyword")
      symbol == F(tableOption, "symbol")
      value == F(tableOption, "value")
      sql == << <<toUpperCase(keyword[1])>> >>
             \o (IF ~FalsyStr(symbol) THEN << <<symbol[1]>> >> ELSE <<>>)
      val ==
        CASE keyword \in {<<"partition by">>, <<"default collate">>} ->
               exprToSQL(value)
          [] keyword = <<"options">> ->
               <<"(">>
               \o join([i \in DOMAIN value[1].items |->
                         optionItemText(value[1].items[i])], CommaSpace)
               \o <<")">>
          [] keyword = <<"cluster by">> ->
               join([i \in DOMAIN value[1].items |->
                       exprToSQL(<<value[1].items[i]>>)], CommaSpace)
          [] OTHER -> literalToSQL(value)
  IN  join(Append(sql, val), Space)

-----------------------------------------------------------------------------
(* Inputs: the trees the renderers are called with                          *)

\* Longest list of hint items in a table_hint.
MaxHints == 2
\* Longest USING list, index_columns list and VALUES row list.
MaxList == 2
\* Most join entries after the base table of a chain.
MaxJoins == 2
\* Deepest nesting of {expr, parentheses} wrappers around a chain.
MaxDepth == 2

\* The objects with field n absent or set to a value of S.
Opt(n, S) == {EmptyObj} \cup {(n :> v) : v \in S}

\* The sequences over S of length lo..hi.
Seqs(S, lo, hi) == UNION {[1..k -> S] : k \in lo..hi}

ExprTags == [sql |-> "tags"]
ExprCond == [sql |-> "a.id = b.id"]

UnnestNodes ==
  { t @@ e @@ a @@ w @@ p :
      t \in {[type |-> "unnest"], [type |-> "Unnest"]},
      e \in Opt("expr", {ExprTags}),
      a \in Opt("as", {[str |-> "t"], [sql |-> "t.x"]}),
      w \in Opt("with_offset", {[keyword |-> "offset", as |-> "pos"],
                                [keyword |-> "with offset as", as |-> "pos"],
                                [keyword |-> "offset"]}),
      p \in Opt("parentheses", {TRUE}) }

Operators ==
  { t @@ a @@ [expr |-> [sql |-> "SUM(x)"], column |-> [column |-> "c"],
               in_expr |-> [operator |-> "IN", right |-> "(1, 2)"]] :
      t \in Opt("type", {"pivot", "unpivot", "PIVOT", "rollup"}),
      a \in Opt("as", {"p"}) }

HintItems ==
  { k @@ i @@ c :
      k \in {[keyword |-> "forceseek"], [keyword |-> "ForceSeek"]},
      i \in Opt("index", {"ix"}),
      c \in Opt("index_columns", Seqs({[sql |-> "c1"], [sql |-> "c2"]}, 0, MaxList)) }
  \cup { [keyword |-> "spatial_window_max_cells", expr |-> [sql |-> "16"]] }
  \cup { [keyword |-> "index", parentheses |-> TRUE] @@ x @@ e :
           x \in Opt("prefix", {"force"}),
           e \in Opt("expr", {[items |-> l] : l \in Seqs({"i1", "i2"}, 0, MaxList)}) }
  \cup { [keyword |-> "index"] @@ x @@ e :
           x \in Opt("prefix", {"force"}), e \in Opt("expr", {[str |-> "i1"]}) }
  \cup { k @@ e : k \in Opt("keyword", {"nolock", ""}),
                  e \in Opt("expr", {[sql |-> "NOLOCK"]}) }

\* The hint items the table_hint lists of table references are drawn from.
HintSample ==
  { [keyword |-> "forceseek", index |-> "ix", index_columns |-> <<[sql |-> "c1"]>>],
    [keyword |-> "index", parentheses |-> TRUE, expr |-> [items |-> <<"i1", "i2">>]],
    [keyword |-> "nolock", expr |-> [sql |-> "NOLOCK"]],
    [keyword |-> "nolock"],
    [expr |-> [sql |-> "NOLOCK"]] }

TableHints ==
  { k @@ e : k \in Opt("keyword", {"with"}),
            e \in Opt("expr", Seqs(HintSample, 0, MaxHints)) }

Tumbles ==
  { [type |-> "tumble", timecol |-> [column |-> "ts"], size |-> [value |-> "'1' HOUR"]]
    @@ d : d \in Opt("data", {x @@ y : x \in Opt("db", {"d"}), y \in Opt("table", {"t"})}) }

TemporalTables ==
  { k @@ e :
      k \in Opt("keyword", {"for system_time"}),
      e \in Opt("expr",
                { [keyword |-> "as", of |-> [sql |-> "ts1"]],
                  [keyword |-> "from_to", from |-> [sql |-> "ts1"], to |-> [sql |-> "ts2"]],
                  [keyword |-> "between_and", between |-> [sql |-> "ts1"],
                   and |-> [sql |-> "ts2"]],
                  [keyword |-> "contained", in |-> [sql |-> "(ts1, ts2)"]],
                  [keyword |-> "all"],
                  [keyword |-> "AS", of |-> [sql |-> "ts1"]],
                  EmptyObj }) }

TableExprs ==
  { [type |-> "select", sql |-> "(SELECT 1)"] }
  \cup { [type |-> "values"] @@ v @@ p @@ x :
           v \in {[values |-> l] : l \in Seqs({"1", "2"}, 1, MaxList)},
           p \in Opt("parentheses", {TRUE}),
           x \in Opt("prefix", {"row"}) }
  \cup Tumbles
  \cup { [type |-> "generator", keyword |-> "table"] @@ g :
           g \in Opt("generators",
                     {<<[type |-> "ROWCOUNT", value |-> "=> 10"]>>,
                      <<[type |-> "ROWCOUNT", value |-> "=> 10"],
                        [type |-> "TIMELIMIT", value |-> "=> 5"]>>}) }

TableSamples ==
  { e @@ r : e \in Opt("expr", {[sql |-> "(10)"]}),
            r \in Opt("repeatable", {[value |-> "REPEATABLE (5)"]}) }

Naming ==
  { s @@ d @@ c @@ t :
      s \in Opt("server", {"srv"}), d \in Opt("db", {"db"}),
      c \in Opt("schema", {"sch"}), t \in Opt("table", {"orders"}) }

\* Every subset of the optional fields of a table reference, each field
\* with its principal variants.
TableRefsProduct ==
  { n @@ a @@ x @@ y @@ p @@ s @@ t @@ o @@ h @@ e :
      n \in Naming,
      a \in Opt("as", {[str |-> "o"]}),
      x \in Opt("prefix", {"only"}),
      y \in Opt("suffix", {"final"}),
      p \in Opt("parentheses", {TRUE}),
      s \in Opt("tablesample", {[expr |-> [sql |-> "(10)"]]}),
      t \in Opt("temporal_table",
                { [keyword |-> "for system_time",
                   expr |-> [keyword |-> "as", of |-> [sql |-> "ts1"]]],
                  [keyword |-> "for system_time", expr |-> [keyword |-> "all"]] }),
      o \in Opt("operator",
                { [type |-> "pivot", expr |-> [sql |-> "SUM(x)"],
                   column |-> [column |-> "c"],
                   in_expr |-> [operator |-> "IN", right |-> "(1, 2)"]],
                  [type |-> "rollup", expr |-> [sql |-> "SUM(x)"],
                   column |-> [column |-> "c"],
                   in_expr |-> [operator |-> "IN", right |-> "(1, 2)"]] }),
      h \in Opt("table_hint",
                { [keyword |-> "with",
                   expr |-> <<[keyword |-> "nolock", expr |-> [sql |-> "NOLOCK"]]>>] }),
      e \in Opt("expr", {[type |-> "select", sql |-> "(SELECT 1)"]}) }

\* The fields the variants below are combined with.
TableRefsBase ==
  { t @@ n @@ a @@ p :
      t \in Opt("type", {"dual"}),
      n \in Opt("table", {"orders"}),
      a \in Opt("as", {[str |-> "o"]}),
      p \in Opt("parentheses", {TRUE, FALSE}) }

\* Every variant of one field at a time.
TableRefsVariants ==
  { b @@ v : b \in TableRefsBase,
            v \in {("temporal_table" :> x) : x \in TemporalTables}
                  \cup {("operator" :> x) : x \in Operators}
                  \cup {("table_hint" :> x) : x \in TableHints}
                  \cup {("expr" :> x) : x \in TableExprs}
                  \cup {("tablesample" :> x) : x \in TableSamples} }

\* References whose table name is the empty string.
TableRefsEmptyName ==
  { [table |-> ""] @@ d @@ a @@ x :
      d \in Opt("db", {"db"}), a \in Opt("as", {[str |-> "o"]}),
      x \in Opt("prefix", {"only"}) }

TableRefs ==
  TableRefsProduct \cup TableRefsVariants \cup TableRefsEmptyName \cup UnnestNodes

\* The first entry of a chain.
BaseEntries ==
  { [type |-> "dual"],
    [type |-> "dual", as |-> [str |-> "d"], parentheses |-> TRUE,
     table_hint |-> [keyword |-> "with"]],
    [table |-> "orders"],
    [db |-> "db", table |-> "orders", as |-> [str |-> "o"]],
    [type |-> "unnest", expr |-> ExprTags, as |-> [str |-> "t"]],
    [table |-> "orders", temporal_table |-> [keyword |-> "for system_time"]],
    EmptyObj }

\* Every subset of the fields of a join entry.
JoinEntries ==
  { j @@ t @@ o @@ u :
      j \in Opt("join", {"inner join"}),
      t \in Opt("table", {"customers"}),
      o \in Opt("on", {ExprCond}),
      u \in Opt("using", Seqs({"id"}, 0, MaxList)) }

\* The join entries the longer chains are drawn from.
JoinSample ==
  { [type |-> "dual", join |-> "inner join", table |-> "customers", on |-> ExprCond],
    [table |-> "customers", as |-> [str |-> "c"]],
    [join |-> "LEFT JOIN", table |-> "items", using |-> <<"id", "k">>],
    [join |-> "inner join", on |-> ExprCond] }

ChainArrays ==
  { [items |-> <<>>] }
  \cup { [items |-> <<b>> \o js] : b \in BaseEntries, js \in Seqs(JoinSample, 0, MaxJoins) }
  \cup { [items |-> <<b, j>>] : b \in {[table |-> "orders"], EmptyObj}, j \in JoinEntries }

\* The chains nested in at most d wrappers.
RECURSIVE Chains(_)
Chains(d) ==
  IF d = 0 THEN ChainArrays
  ELSE Chains(d - 1)
       \cup { e @@ p : e \in Opt("expr", Chains(d - 1)),
                       p \in Opt("parentheses", {TRUE, FALSE}) }

TableOptions ==
  { k @@ y @@ v :
      k \in Opt("keyword", {"engine"}),
      y \in Opt("symbol", {"="}),
      v \in Opt("value", {[value |-> "InnoDB"]}) }
  \cup { [keyword |-> k] @@ y @@ v :
           k \in {"partition by", "default collate"},
           y \in Opt("symbol", {"="}),
           v \in Opt("value", {[sql |-> "created_at"]}) }
  \cup { [keyword |-> "options"] @@ v :
           v \in Opt("value",
                     { [items |-> l] :
                         l \in Seqs({[keyword |-> "description", symbol |-> "=",
                                      value |-> [sql |-> "'x'"]]}, 0, MaxList) }) }
  \cup { [keyword |-> "cluster by"] @@ v :
           v \in Opt("value",
                     {[items |-> l] : l \in Seqs({[sql |-> "c1"], [sql |-> "c2"]}, 0, MaxList)}) }

\* x or undefined, for the renderers that accept an absent argument.
Maybe(S) == {<<>>} \cup {<<x>> : x \in S}

-----------------------------------------------------------------------------
(* Calls: one renderer is called with one tree and returns or raises        *)

Init ==
  /\ pc = "call"
  /\ ret = undefined
  /\ threw = FALSE
  /\ \/ fn = "unnestToSQL" /\ arg \in {<<x>> : x \in UnnestNodes}
     \/ fn = "operatorToSQL" /\ arg \in Maybe(Operators)
     \/ fn = "tableHintToSQL" /\ arg \in Maybe(HintItems)
     \/ fn = "tableTumbleToSQL" /\ arg \in Maybe(Tumbles)
     \/ fn = "tableToSQL" /\ arg \in {<<x>> : x \in TableRefs}
     \/ fn = "tablesToSQL" /\ arg \in Maybe(Chains(MaxDepth))
     \/ fn = "tableOptionToSQL" /\ arg \in {<<x>> : x \in TableOptions}

\* The call of fn returns text (or undefined), or raises when raises holds.
Return(raises, text) ==
  /\ threw' = raises
  /\ ret' = IF raises THEN undefined ELSE text
  /\ pc' = "done"
  /\ UNCHANGED <<fn, arg>>

UnnestToSQL ==
  /\ pc = "call" /\ fn = "unnestToSQL"
  /\ Return(FALSE, unnestToSQL(arg[1]))

OperatorToSQL ==
  /\ pc = "call" /\ fn = "operatorToSQL"
  /\ Return(FALSE, operatorToSQL(arg))

TableHintToSQL ==
  /\ pc = "call" /\ fn = "tableHintToSQL"
  /\ Return(tableHintThrows(arg), tableHintToSQL(arg))

TableTumbleToSQL ==
  /\ pc = "call" /\ fn = "tableTumbleToSQL"
  /\ Return(tableTumbleThrows(arg), tableTumbleToSQL(arg))

TableToSQL ==
  /\ pc = "call" /\ fn = "tableToSQL"
  /\ Return(tableToSQLThrows(arg[1]), tableToSQL(arg[1]))

TablesToSQL ==
  /\ pc = "call" /\ fn = "tablesToSQL"
  /\ Return(tablesToSQLThrows(arg), tablesToSQL(arg))

TableOptionToSQL ==
  /\ pc = "call" /\ fn = "tableOptionToSQL"
  /\ Return(tableOptionThrows(arg[1]), tableOptionToSQL(arg[1]))

Next ==
  \/ UnnestToSQL
  \/ OperatorToSQL
  \/ TableHintToSQL
  \/ TableTumbleToSQL
  \/ TableToSQL
  \/ TablesToSQL
  \/ TableOptionToSQL

Spec == Init /\ [][Next]_vars

-----------------------------------------------------------------------------
(* Properties                                                               *)

\* The call of renderer f has ended.
Done(f) == pc = "done" /\ fn = f

\* The object o without field f, and o restricted to the fields of S.
Without(o, f) == [g \in DOMAIN o \ {f} |-> o[g]]
Only(o, S) == [g \in DOMAIN o \cap S |-> o[g]]

Parens(text) == <<"(">> \o text \o <<")">>

\* The call is tablesToSQL on an array / on a wrapper object.
ArrayCall == Done("tablesToSQL") /\ arg # <<>> /\ IsArray(arg[1])
WrapperCall == Done("tablesToSQL") /\ arg # <<>> /\ ~IsArray(arg[1])

\* The call is tableToSQL on a reference that is not an UNNEST node.
TableCall == Done("tableToSQL") /\ ~IsUnnest(arg[1])

\* C1: no renderer ever raises a fault, whatever optional field is absent
\* (an empty chain, a hint item with no keyword, a forceseek item with no
\* index_columns, a table_hint with no expr list, an option with no keyword).
C1_NeverFaults == pc = "done" => ~threw

\* C2: a chain whose first entry has type dual renders to exactly DUAL,
\* whatever the further entries and the other fields of the first entry.
C2_DualShortCircuit ==
  (ArrayCall /\ arg[1].items # <<>> /\ F(arg[1].items[1], "type") = <<"dual">>)
    => (~threw /\ ret = <<"DUAL">>)

C2_Witness ==
  /\ ArrayCall /\ Len(arg[1].items) >= 3
  /\ F(arg[1].items[1], "type") = <<"dual">>
  /\ {"as", "parentheses", "table_hint"} \subseteq DOMAIN arg[1].items[1]
  /\ ret = <<"DUAL">>

\* C3: a wrapper {expr, parentheses} renders, at every depth, to
\* ( tablesToSQL(expr) ) when parentheses is true and to tablesToSQL(expr)
\* unchanged otherwise; around a dual chain that is (DUAL) / DUAL.
C3_Wrapper ==
  (WrapperCall /\ ~threw) =>
    LET expr == F(arg[1], "expr")
        wrap == F(arg[1], "parentheses") = <<TRUE>>
        dual == /\ expr # <<>> /\ IsArray(expr[1])
                /\ F(expr[1].items[1], "type") = <<"dual">>
    IN  /\ ret = IF wrap THEN Parens(tablesToSQL(expr)) ELSE tablesToSQL(expr)
        /\ dual => ret = IF wrap THEN <<"(", "DUAL", ")">> ELSE <<"DUAL">>

C3_Witness ==
  /\ WrapperCall /\ ~threw
  /\ F(arg[1], "parentheses") = <<TRUE>>
  /\ F(arg[1], "expr") # <<>> /\ ~IsArray(arg[1].expr)
  /\ F(arg[1].expr, "parentheses") = <<TRUE>>
  /\ Len(ret) > 4 /\ ret[1] = "(" /\ ret[2] = "("

\* The separator, ON and USING parts of a join entry as C4 states them.
C4Sep(e) ==
  IF ~FalsyStr(F(e, "join")) THEN <<" ", toUpperCase(e.join)>> ELSE <<",">>
C4On(e) ==
  IF F(e, "on") # <<>> THEN <<" ", "ON", " ">> \o exprToSQL(F(e, "on")) ELSE <<>>
C4Using(e) ==
  IF F(e, "using") # <<>>
  THEN <<" ", "USING", " ", "(">>
       \o join([i \in DOMAIN e.using |-> identifierToSql(<<e.using[i]>>)], CommaSpace)
       \o <<")">>
  ELSE <<>>

\* The chain text of C4 as stated: every join entry adds a single space and
\* its rendering.
RECURSIVE C4Stated(_, _)
C4Stated(items, i) ==
  IF i > Len(items) THEN <<>>
  ELSE (IF i = 1 THEN tableToSQL(items[1])
        ELSE C4Sep(items[i]) \o <<" ">> \o tableToSQL(items[i])
             \o C4On(items[i]) \o C4Using(items[i]))
       \o C4Stated(items, i + 1)

\* The chain text of C4 as amended: the space and the rendering are added
\* only for an entry whose rendering is not empty.
RECURSIVE C4Amended(_, _)
C4Amended(items, i) ==
  IF i > Len(items) THEN <<>>
  ELSE (IF i = 1 THEN tableToSQL(items[1])
        ELSE C4Sep(items[i])
             \o (IF tableToSQL(items[i]) = <<>> THEN <<>>
                 ELSE <<" ">> \o tableToSQL(items[i]))
             \o C4On(items[i]) \o C4Using(items[i]))
       \o C4Amended(items, i + 1)

\* The call C4 is about: a non-empty array whose first entry is not dual.
C4Call ==
  /\ ArrayCall /\ ~threw /\ arg[1].items # <<>>
  /\ F(arg[1].items[1], "type") # <<"dual">>

\* C4 as stated: the chain is entry 0, then per join entry ` KEYWORD` or
\* `,`, a single space and the entry, ` ON cond`, ` USING (cols)`.
C4_AsStated == C4Call => ret = C4Stated(arg[1].items, 1)

\* C4 (amended): the same, except that a join entry whose rendering is
\* empty adds neither the space nor any text after its keyword or comma.
C4_ChainText == C4Call => ret = C4Amended(arg[1].items, 1)

C4_Witness ==
  /\ C4Call /\ Len(arg[1].items) = 2
  /\ {"join", "table", "on", "using"} \subseteq DOMAIN arg[1].items[2]
  /\ Len(arg[1].items[2].using) = 2
  /\ ret = <<QUOTE, "orders", QUOTE, " ", "INNER JOIN", " ",
             QUOTE, "customers", QUOTE, " ", "ON", " ", "a.id = b.id", " ",
             "USING", " ", "(", QUOTE, "id", QUOTE, ",", " ",
             QUOTE, "id", QUOTE, ")">>

\* The call renders an UNNEST node, directly or through tableToSQL.
UnnestCall ==
  \/ Done("unnestToSQL")
  \/ Done("tableToSQL") /\ IsUnnest(arg[1])

\* UNNEST(<expr>) and ` AS <alias>` as C5 states them.
C5Head(u) ==
  <<"UNNEST", "(">>
  \o (IF F(u, "expr") # <<>> THEN exprToSQL(F(u, "expr")) ELSE <<>>)
  \o <<")">>
C5Alias(u) ==
  IF F(u, "as") = <<>> THEN <<>>
  ELSE <<" ", "AS", " ">>
       \o (IF IsStringAlias(F(u, "as")) THEN identifierToSql(<<u.as.str>>)
           ELSE exprToSQL(F(u, "as")))

\* The with-offset clause as C5 states it: <OFFSET-KEYWORD> AS <identifier>
\* whenever with_offset is present.
C5OffsetStated(u) ==
  IF F(u, "with_offset") = <<>> THEN <<>>
  ELSE <<" ", toUpperCase(u.with_offset.keyword), " ", "AS">>
       \o (IF F(u.with_offset, "as") # <<>>
           THEN <<" ">> \o identifierToSql(F(u.with_offset, "as")) ELSE <<>>)

\* The with-offset clause as amended: <OFFSET-KEYWORD> <identifier>, and only
\* when with_offset carries an alias.
C5OffsetAmended(u) ==
  IF FF(F(u, "with_offset"), "as") = <<>> THEN <<>>
  ELSE <<" ", toUpperCase(u.with_offset.keyword), " ">>
       \o identifierToSql(F(u.with_offset, "as"))

\* The example node of C5.
C5Example ==
  [type |-> "unnest", expr |-> ExprTags, as |-> [str |-> "t"],
   with_offset |-> [keyword |-> "offset", as |-> "pos"]]

\* C5 as stated: UNNEST(<expr>), ` AS <alias>`, then the with-offset clause
\* <OFFSET-KEYWORD> AS <identifier> when with_offset is present.
C5_AsStated ==
  UnnestCall =>
    ret = C5Head(arg[1]) \o C5Alias(arg[1]) \o C5OffsetStated(arg[1])

\* C5 (amended): UNNEST(<expr>), ` AS <alias>`, then ` <OFFSET-KEYWORD>
\* <identifier>` (the uppercased keyword, no AS of its own) exactly when
\* with_offset carries an alias; the example renders
\* UNNEST(tags) AS t OFFSET pos.
C5_Unnest ==
  UnnestCall =>
    /\ ~threw
    /\ ret = C5Head(arg[1]) \o C5Alias(arg[1]) \o C5OffsetAmended(arg[1])
    /\ arg[1] = C5Example =>
         ret = <<"UNNEST", "(", "tags", ")", " ", "AS", " ", QUOTE, "t", QUOTE,
                 " ", "OFFSET", " ", QUOTE, "pos", QUOTE>>

C5_Witness ==
  /\ Done("unnestToSQL") /\ arg[1] = C5Example /\ Len(ret) = 16

\* The identifiers of names, each quoted, joined by a single `.`.
RECURSIVE C6Dotted(_)
C6Dotted(names) ==
  IF names = <<>> THEN <<>>
  ELSE <<QUOTE, names[1], QUOTE>>
       \o (IF Len(names) = 1 THEN <<>> ELSE <<".">> \o C6Dotted(Tail(names)))

\* The naming components of t that are present (a non-empty string), in
\* the order server, db, schema, table.
C6Names(t) ==
  LET all == <<"server", "db", "schema", "table">>
      kept == SelectSeq(all, LAMBDA f : ~FalsyStr(F(t, f)))
  IN  [i \in DOMAIN kept |-> t[kept[i]]]

\* C6: a reference with no decoration field renders to exactly its present
\* naming components joined by single dots: no leading, trailing or doubled
\* dot, no space, nothing but the rendered identifiers.
C6_QualifiedName ==
  (TableCall /\ DOMAIN arg[1] \subseteq {"type", "server", "db", "schema", "table"})
    => /\ ~threw
       /\ ret = C6Dotted(C6Names(arg[1]))
       /\ \A i \in DOMAIN ret : ret[i] # " "
       /\ ret # <<>> => ret[1] # "." /\ ret[Len(ret)] # "."
       /\ \A i \in 1..(Len(ret) - 1) : ~(ret[i] = "." /\ ret[i + 1] = ".")

C6_Witness ==
  /\ TableCall /\ DOMAIN arg[1] = {"server", "schema", "table"}
  /\ ret = <<QUOTE, "srv", QUOTE, ".", QUOTE, "sch", QUOTE, ".",
             QUOTE, "orders", QUOTE>>

\* The fields of the qualified name and of each decoration segment.
NameFields == {"type", "server", "db", "schema", "table", "expr", "prefix", "suffix"}

\* The hint clause <KEYWORD> (<hint1>, <hint2>, ...) of table_hint h.
C7HintClause(h) ==
  (IF F(h, "keyword") = <<>> THEN <<>> ELSE <<toUpperCase(h.keyword), " ">>)
  \o Parens(join(filterHasVal([i \in DOMAIN h.expr |-> tableHintToSQL(<<h.expr[i]>>)]),
                 CommaSpace))

\* The six segments of reference t, each rendered alone.
C7Segments(t) ==
  << tableToSQL(Only(t, NameFields)),
     tableToSQL(Only(t, {"tablesample"})),
     tableToSQL(Only(t, {"temporal_table"})),
     tableToSQL(Only(t, {"as"})),
     tableToSQL(Only(t, {"operator"})),
     IF F(t, "table_hint") = <<>> THEN <<>> ELSE C7HintClause(t.table_hint) >>

\* C7: a reference renders its segments in the one order qualified name,
\* TABLESAMPLE, temporal clause, AS alias, pivot operator, hint clause; each
\* present segment once, absent ones not at all, exactly one space between
\* adjacent segments, and the parentheses around the whole text.
C7_SegmentOrder ==
  (TableCall /\ ~threw) =>
    LET text == join(filterHasVal(C7Segments(arg[1])), Space)
    IN  /\ ret = IF F(arg[1], "parentheses") = <<TRUE>> THEN Parens(text) ELSE text
        /\ ret # <<>> => ret[1] # " " /\ ret[Len(ret)] # " "
        /\ \A i \in 1..(Len(ret) - 1) : ~(ret[i] = " " /\ ret[i + 1] = " ")

C7_Witness ==
  /\ TableCall /\ ~threw
  /\ {"db", "table", "prefix", "suffix", "tablesample", "temporal_table", "as",
      "operator", "table_hint", "parentheses"} \subseteq DOMAIN arg[1]
  /\ arg[1].parentheses = TRUE /\ arg[1].table = "orders"
  /\ arg[1].operator.type = "pivot"
  /\ arg[1].temporal_table.expr.keyword = "as"
  /\ ret[1] = "(" /\ ret[Len(ret)] = ")" /\ ret[Len(ret) - 1] = ")"

\* The inner keywords temporalTableOptionToSQL recognizes.
TemporalKeywords == {<<"as">>, <<"from_to">>, <<"between_and">>, <<"contained">>}

\* The call C8 is about: a reference with a temporal_table that has an
\* inner clause.
TemporalCall ==
  /\ TableCall /\ ~threw
  /\ FF(F(arg[1], "temporal_table"), "expr") # <<>>

\* The inner clause of temporal_table tt, for a recognized inner keyword.
C8Clause(tt) ==
  LET e == tt.expr
  IN  CASE e.keyword = "as" -> <<"AS", " ", "OF", " ", e.of.sql>>
        [] e.keyword = "from_to" -> <<"FROM", " ", e.from.sql, " ", "TO", " ", e.to.sql>>
        [] e.keyword = "between_and" ->
             <<"BETWEEN", " ", e.between.sql, " ", "AND", " ", e.and.sql>>
        [] e.keyword = "contained" -> <<"CONTAINED", " ", "IN", " ", e.in.sql>>

\* The temporal segment: the uppercased outer keyword, when there is one,
\* and the inner clause, when its keyword is recognized.
C8Segment(tt) ==
  join(filterHasVal(<< IF F(tt, "keyword") = <<>> THEN <<>>
                       ELSE <<toUpperCase(tt.keyword)>>,
                       IF F(tt.expr, "keyword") \in TemporalKeywords
                       THEN C8Clause(tt) ELSE <<>> >>), Space)

\* The text of reference t with seg as its temporal segment.
C8Text(t, seg) ==
  LET text == join(filterHasVal(<<
                tableToSQL(Only(t, NameFields \cup {"tablesample"})),
                seg,
                tableToSQL(Only(t, {"as", "operator", "table_hint"})) >>), Space)
  IN  IF F(t, "parentheses") = <<TRUE>> THEN Parens(text) ELSE text

\* C8 as stated: with an unrecognized inner keyword the reference renders as
\* if temporal_table were absent; with a recognized one the segment is
\* <KEYWORD> and the inner clause.
C8_AsStated ==
  TemporalCall =>
    IF F(arg[1].temporal_table.expr, "keyword") \in TemporalKeywords
    THEN ret = C8Text(arg[1], C8Segment(arg[1].temporal_table))
    ELSE ret = tableToSQL(Without(arg[1], "temporal_table"))

\* C8 (amended): with an unrecognized inner keyword only the inner clause is
\* dropped: the temporal segment is the uppercased outer keyword alone, and
\* the text equals the one without temporal_table only when there is no
\* outer keyword either; with a recognized one the segment is <KEYWORD> and
\* the inner clause.
C8_TemporalSegment ==
  TemporalCall =>
    LET tt == arg[1].temporal_table
    IN  /\ ret = C8Text(arg[1], C8Segment(tt))
        /\ (F(tt.expr, "keyword") \notin TemporalKeywords /\ F(tt, "keyword") # <<>>)
             => C8Segment(tt) = <<toUpperCase(tt.keyword)>>
        /\ (F(tt.expr, "keyword") \notin TemporalKeywords /\ F(tt, "keyword") = <<>>)
             => ret = tableToSQL(Without(arg[1], "temporal_table"))

C8_Witness ==
  /\ TemporalCall
  /\ F(arg[1].temporal_table.expr, "keyword") = <<"all">>
  /\ F(arg[1].temporal_table, "keyword") = <<"for system_time">>
  /\ {"table", "as", "operator"} \subseteq DOMAIN arg[1] /\ arg[1].table = "orders"
  /\ \E i \in DOMAIN ret : ret[i] = "FOR SYSTEM_TIME"

\* The pivot segment <TYPE>(<expr> FOR <column> <in_expr>)[ AS <alias>].
C9Pivot(op) ==
  <<toUpperCase(op.type), "(", op.expr.sql, " ", "FOR", " ", op.column.column, " ">>
  \o binaryToSQL(F(op, "in_expr")) \o <<")">>
  \o (IF F(op, "as") = <<>> THEN <<>>
      ELSE <<" ", "AS", " ">> \o identifierToSql(F(op, "as")))

IsPivotType(op) == F(op, "type") \in {<<"pivot">>, <<"unpivot">>}

\* C9: an operator whose type is neither pivot nor unpivot renders empty and
\* leaves the reference as it is without the operator; pivot and unpivot
\* render <TYPE>(<expr> FOR <column> <in_expr>), then ` AS <alias>` exactly
\* when an alias is present.
C9_Operator ==
  /\ (Done("operatorToSQL") /\ arg # <<>>) =>
       /\ ~threw
       /\ ret = IF IsPivotType(arg[1]) THEN C9Pivot(arg[1]) ELSE <<>>
  /\ (TableCall /\ ~threw /\ F(arg[1], "operator") # <<>>) =>
       IF IsPivotType(arg[1].operator)
       THEN tableToSQL(Only(arg[1], {"operator"})) = C9Pivot(arg[1].operator)
       ELSE ret = tableToSQL(Without(arg[1], "operator"))

C9_Witness ==
  /\ TableCall /\ ~threw
  /\ F(arg[1], "operator") # <<>> /\ F(arg[1].operator, "type") = <<"PIVOT">>
  /\ {"table", "as"} \subseteq DOMAIN arg[1]
  /\ ret = <<QUOTE, "orders", QUOTE, " ", "AS", " ", QUOTE, "o", QUOTE>>

\* The call C10 is about: tableToSQL on a reference with parentheses true.
ParenCall ==
  Done("tableToSQL") /\ ~threw /\ F(arg[1], "parentheses") = <<TRUE>>

\* C10 as stated: every reference with parentheses true, an UNNEST node
\* included, renders to ( the text without parentheses ).
C10_AsStated ==
  ParenCall => ret = Parens(tableToSQL(Without(arg[1], "parentheses")))

\* C10 (amended): that holds of every reference that is not an UNNEST node;
\* an UNNEST node ignores parentheses and renders as without it.
C10_Parentheses ==
  ParenCall =>
    ret = IF IsUnnest(arg[1])
          THEN tableToSQL(Without(arg[1], "parentheses"))
          ELSE Parens(tableToSQL(Without(arg[1], "parentheses")))

C10_Witness ==
  /\ ParenCall /\ IsUnnest(arg[1])
  /\ {"expr", "as"} \subseteq DOMAIN arg[1]
  /\ ret[1] = "UNNEST" /\ ret[Len(ret)] # ")"

====
